---- MODULE Spec2Model ----
(***************************************************************************)
(* Model of the in-memory virtual filesystem of main.cpp: the Item tree,   *)
(* the sector bitmap (sectorMap), the sector array (disk) and the commands *)
(* the shell dispatches to class FileSystem.                               *)
(*                                                                         *)
(* Items live in an arena addressed by handles (the model's pointers).     *)
(* Strings are sequences of one-character strings, so that splitPath,      *)
(* find_last_of and substr are computed as the code computes them.         *)
(* Items that no pointer held by the program can reach any more (leaked or *)
(* deleted ones) are dropped from the arena: the program cannot observe    *)
(* them.  The bitmap and the disk are never collected.                     *)
(***************************************************************************)
EXTENDS Integers, Sequences, FiniteSets, TLC

VARIABLES
  items,         \* the Items in memory: handle -> fields of class Item
  sectorMap,     \* vector<bool> sectorMap
  disk,          \* vector<string> disk
  currentDir,    \* Item *currentDir
  totalSectors,  \* int totalSectors
  last,          \* the last command that got past its checks, and how it ended
  alive,         \* the process is running and its pointers are valid
  arena          \* how many Items the memory of this run holds

vars == <<items, sectorMap, disk, currentDir, totalSectors, last, alive, arena>>

----------------------------------------------------------------------------
(* Bounds and program constants *)

SECTOR_SIZE == 64

\* capacity entered at start-up (main: diskCapacity)
TotalSectors == 2

\* largest number of Items in memory, the root included
MaxItems == 3

\* the same for the runs over the Files of one directory
MaxItemsFiles == 4

Null == 0
root == 1
Handles == 1..arena
Sectors == 0..(totalSectors - 1)

----------------------------------------------------------------------------
(* Strings *)

Slash == "/"
Dot == "."

NameA == <<"a">>
NameB == <<"b">>
NameC == <<"c">>
RootName == <<"/">>
DotName == <<".">>
DotDotName == <<".", ".">>

\* the characters isalnum accepts, among those the model uses
AlnumChars == {"a", "b", "c"}

\* bytes of a real file: n bytes, distinct per seed
Data(seed, n) == [i \in 1..n |-> (seed * 16 + i) % 256]

Min(S) == CHOOSE x \in S : \A y \in S : x <= y
Max(S) == CHOOSE x \in S : \A y \in S : x >= y

----------------------------------------------------------------------------
(* Sector allocator *)

\* AllocateSector scanning from the top: the highest free id
AllocateSectorHighest(map) ==
  IF \E i \in DOMAIN map : ~map[i]
  THEN Max({i \in DOMAIN map : ~map[i]})
  ELSE -1

\* allocateSector: the lowest free id, or -1 where the code throws
AllocateSector(map) ==
  IF \E i \in DOMAIN map : ~map[i]
  THEN Min({i \in DOMAIN map : ~map[i]})
  ELSE -1

\* freeSector on every id of a list (ids are in range: they came from allocateSector)
FreeAll(map, secs) ==
  [i \in DOMAIN map |-> IF \E k \in DOMAIN secs : secs[k] = i THEN FALSE ELSE map[i]]

\* WriteChunks with the loop condition "a whole sector is left": the short
\* last chunk is never written
RECURSIVE WriteChunksDropTail(_, _, _)
WriteChunksDropTail(fs, h, pos) ==
  LET data == fs.items[h].content IN
  IF pos + SECTOR_SIZE > Len(data) THEN fs
  ELSE
    LET sector == AllocateSector(fs.sectorMap) IN
    IF sector = -1 THEN [fs EXCEPT !.err = "DiskFull"]
    ELSE
      LET fs1 == [fs EXCEPT !.sectorMap[sector] = TRUE,
                            !.items[h].sectors = Append(@, sector),
                            !.disk[sector] = SubSeq(data, pos + 1, pos + SECTOR_SIZE)]
      IN WriteChunksDropTail(fs1, h, pos + SECTOR_SIZE)

\* the write loop of saveToDisk, from byte offset pos (0-based) on
RECURSIVE WriteChunks(_, _, _)
WriteChunks(fs, h, pos) ==
  LET data == fs.items[h].content IN
  IF pos >= Len(data) THEN fs
  ELSE
    LET sector == AllocateSector(fs.sectorMap) IN
    IF sector = -1 THEN [fs EXCEPT !.err = "DiskFull"]
    ELSE
      LET len == IF SECTOR_SIZE < Len(data) - pos THEN SECTOR_SIZE ELSE Len(data) - pos
          fs1 == [fs EXCEPT !.sectorMap[sector] = TRUE,
                            !.items[h].sectors = Append(@, sector),
                            !.disk[sector] = SubSeq(data, pos + 1, pos + len)]
      IN WriteChunks(fs1, h, pos + len)

\* SaveToDisk as a transaction: a write that runs out of sectors gives back
\* the sectors it took
SaveToDiskRollback(fs, h) ==
  IF h = Null \/ fs.items[h].isFolder THEN fs
  ELSE
    LET fs1 == [fs EXCEPT !.sectorMap = FreeAll(@, fs.items[h].sectors),
                          !.items[h].sectors = <<>>]
        fs2 == WriteChunks(fs1, h, 0)
    IN IF fs2.err = "" THEN fs2
       ELSE [fs2 EXCEPT !.sectorMap = FreeAll(@, fs2.items[h].sectors),
                        !.items[h].sectors = <<>>]

SaveToDisk(fs, h) ==
  IF h = Null \/ fs.items[h].isFolder THEN fs
  ELSE
    LET fs1 == [fs EXCEPT !.sectorMap = FreeAll(@, fs.items[h].sectors),
                          !.items[h].sectors = <<>>]
    IN WriteChunks(fs1, h, 0)

----------------------------------------------------------------------------
(* Paths *)

\* splitPath: the non-empty pieces between '/' characters
RECURSIVE SplitFrom(_, _, _, _)
SplitFrom(path, i, part, parts) ==
  IF i > Len(path)
  THEN IF part = <<>> THEN parts ELSE Append(parts, part)
  ELSE IF path[i] = Slash
       THEN SplitFrom(path, i + 1, <<>>,
                      IF part = <<>> THEN parts ELSE Append(parts, part))
       ELSE SplitFrom(path, i + 1, Append(part, path[i]), parts)

SplitPath(path) == SplitFrom(path, 1, <<>>, <<>>)

\* the first child of node h (in children order) named part, or Null
FindChild(its, h, part) ==
  LET ch == its[h].children
      hits == {k \in DOMAIN ch : its[ch[k]].name = part}
  IN IF hits = {} THEN Null ELSE ch[Min(hits)]

RECURSIVE WalkParts(_, _, _, _)
WalkParts(its, current, parts, i) ==
  IF i > Len(parts) THEN current
  ELSE IF parts[i] = DotName THEN WalkParts(its, current, parts, i + 1)
  ELSE IF parts[i] = DotDotName
       THEN WalkParts(its, IF its[current].parent # Null THEN its[current].parent
                           ELSE current, parts, i + 1)
  ELSE LET c == FindChild(its, current, parts[i]) IN
       IF c = Null THEN Null ELSE WalkParts(its, c, parts, i + 1)

\* getItem: the handle the path resolves to from directory cur, or Null
GetItem(its, cur, path) ==
  IF path = <<>> \/ path = DotName THEN cur
  ELSE IF path = RootName THEN root
  ELSE IF path = DotDotName
       THEN (IF its[cur].parent # Null THEN its[cur].parent ELSE cur)
  ELSE WalkParts(its, IF path[1] = Slash THEN root ELSE cur, SplitPath(path), 1)

IsValidName(name) ==
  /\ name # <<>>
  /\ name # DotName
  /\ name # DotDotName
  /\ \A k \in DOMAIN name : name[k] \in AlnumChars \/ name[k] = "_" \/ name[k] = Dot

\* dest.find_last_of('/') as a 1-based index, 0 for npos
FindLastSlash(dest) ==
  IF \E k \in DOMAIN dest : dest[k] = Slash
  THEN Max({k \in DOMAIN dest : dest[k] = Slash})
  ELSE 0

\* the destDirPath / destName split of cp and mv
DestDirPath(dest) ==
  IF FindLastSlash(dest) = 0 THEN DotName ELSE SubSeq(dest, 1, FindLastSlash(dest) - 1)

DestName(dest) ==
  IF FindLastSlash(dest) = 0 THEN dest ELSE SubSeq(dest, FindLastSlash(dest) + 1, Len(dest))

----------------------------------------------------------------------------
(* The arena *)

NewItem(folder, name, content, parent) ==
  [isFolder |-> folder, name |-> name, content |-> content,
   sectors |-> <<>>, children |-> <<>>, parent |-> parent]

\* new Item(): the lowest handle not in use
Fresh(its) ==
  Min({n \in 1..(Cardinality(DOMAIN its) + 1) : n \notin DOMAIN its})

Extend(its, h, rec) == [x \in DOMAIN its \cup {h} |-> IF x = h THEN rec ELSE its[x]]

SeqSet(seq) == {seq[k] : k \in DOMAIN seq}

ChildSet(its, h) == {its[h].children[k] : k \in DOMAIN its[h].children}

\* handles reachable from a set through children and parent pointers
RECURSIVE ReachFrom(_, _)
ReachFrom(its, S) ==
  LET T == S \cup UNION {ChildSet(its, h) \cap DOMAIN its : h \in S}
             \cup {its[h].parent : h \in {x \in S : its[x].parent \in DOMAIN its}}
  IN IF T = S THEN S ELSE ReachFrom(its, T)

\* drop the Items no pointer of the program reaches
Collect(its, cur) ==
  LET keep == ReachFrom(its, {root, cur} \cap DOMAIN its)
  IN [h \in keep |-> its[h]]

\* erase the first occurrence of x from a pointer vector (find + erase)
RemoveFirst(seq, x) ==
  IF \E k \in DOMAIN seq : seq[k] = x
  THEN LET p == Min({k \in DOMAIN seq : seq[k] = x})
       IN SubSeq(seq, 1, p - 1) \o SubSeq(seq, p + 1, Len(seq))
  ELSE seq

FsOf(its, map, dsk) == [items |-> its, sectorMap |-> map, disk |-> dsk, err |-> ""]

----------------------------------------------------------------------------
(* Tree walks *)

\* proper descendants of h through children vectors
RECURSIVE DescFrom(_, _)
DescFrom(its, S) ==
  LET T == S \cup UNION {ChildSet(its, h) \cap DOMAIN its : h \in S}
  IN IF T = S THEN S ELSE DescFrom(its, T)

Desc(its, h) == DescFrom(its, ChildSet(its, h) \cap DOMAIN its)

\* a recursion over children started at h never returns
CyclicBelow(its, h) == \E m \in {h} \cup Desc(its, h) : m \in Desc(its, m)

\* h and the Items on its parent chain
RECURSIVE UpFrom(_, _)
UpFrom(its, S) ==
  LET T == S \cup {its[h].parent : h \in {x \in S : its[x].parent # Null}}
  IN IF T = S THEN S ELSE UpFrom(its, T)

Chain(its, h) == UpFrom(its, {h})

\* the parent chain of h ends at a null parent
ChainEnds(its, h) == \E m \in Chain(its, h) : its[m].parent = Null

RECURSIVE Flatten(_)
Flatten(seqs) == IF seqs = <<>> THEN <<>> ELSE Head(seqs) \o Flatten(Tail(seqs))

\* collectAllFiles(folder): the Files below folder, depth first in child order
RECURSIVE CollectAllFiles(_, _)
CollectAllFiles(its, folder) ==
  Flatten([k \in DOMAIN its[folder].children |->
             LET child == its[folder].children[k] IN
             IF its[child].isFolder THEN CollectAllFiles(its, child) ELSE <<child>>])

\* the order in which copyItem(node) creates the copies: parent first
RECURSIVE PreOrder(_, _)
PreOrder(its, node) ==
  <<node>> \o
    Flatten([k \in DOMAIN its[node].children |-> PreOrder(its, its[node].children[k])])

\* the order in which deleteTree(node) reaches "delete": children first
RECURSIVE PostOrder(_, _)
PostOrder(its, node) ==
  Flatten([k \in DOMAIN its[node].children |-> PostOrder(its, its[node].children[k])])
    \o <<node>>

----------------------------------------------------------------------------
(* Inputs *)

Names == {NameA, NameB}

Paths == {DotName, DotDotName, RootName, NameA, NameB,
          <<"a", "/", "b">>, <<"/", "a">>}

Contents == {Data(1, SECTOR_SIZE), Data(1, SECTOR_SIZE + 1)}

\* mkdir is also given a path whose second segment is no valid name
MkdirPaths == Paths \cup {<<"a", "/", ".", ".">>}

----------------------------------------------------------------------------
(* Initial state: FileSystem(capacity) *)

Construct(capacity) ==
  /\ totalSectors = capacity
  /\ items = [h \in {root} |-> NewItem(TRUE, RootName, <<>>, Null)]
  /\ sectorMap = [i \in 0..(capacity - 1) |-> FALSE]
  /\ disk = [i \in 0..(capacity - 1) |-> <<>>]
  /\ currentDir = root
  /\ last = [op |-> "init", err |-> ""]
  /\ alive = TRUE

Init == Construct(TotalSectors) /\ arena = MaxItems

\* no pointer the program can reach names a deleted Item
NoDangling(its, cur) ==
  /\ {root, cur} \subseteq DOMAIN its
  /\ \A h \in DOMAIN Collect(its, cur) :
       /\ ChildSet(its, h) \subseteq DOMAIN its
       /\ its[h].parent \in DOMAIN its \cup {Null}

\* the Items in the order a depth-first walk from the root (then from the
\* current directory, then from what is left) first meets them
RECURSIVE Visit(_, _, _)
Visit(its, stack, seen) ==
  IF stack = <<>> THEN seen
  ELSE IF Head(stack) \in SeqSet(seen) \/ Head(stack) \notin DOMAIN its
       THEN Visit(its, Tail(stack), seen)
       ELSE Visit(its, its[Head(stack)].children \o Tail(stack), Append(seen, Head(stack)))

RECURSIVE SetToSeq(_)
SetToSeq(S) == IF S = {} THEN <<>> ELSE <<Min(S)>> \o SetToSeq(S \ {Min(S)})

\* handles are the model's names for addresses: renumber them in walk order,
\* so that two heaps that differ only in addresses are one state
Renumber(its, cur) ==
  LET order == Visit(its, <<root, cur>> \o SetToSeq(DOMAIN its), <<>>)
      idx(h) == IF h = Null THEN Null ELSE CHOOSE i \in DOMAIN order : order[i] = h
  IN [items |-> [i \in DOMAIN order |->
                   [its[order[i]] EXCEPT
                      !.parent = idx(@),
                      !.children = [k \in DOMAIN @ |-> idx(@[k])]]],
      cur |-> idx(cur)]

\* a command returned to the shell with this outcome; when it left a pointer
\* to a deleted Item behind (the root, the current directory, a child), every
\* later command is undefined and the model follows the process no further
Finish(fs, cur, op, err) ==
  LET kept == Collect(fs.items, cur)
      sound == NoDangling(fs.items, cur)
      named == Renumber(kept, cur)
  IN /\ DOMAIN kept \subseteq Handles
     /\ items' = IF sound THEN named.items ELSE kept
     /\ currentDir' = IF sound THEN named.cur ELSE cur
     /\ sectorMap' = fs.sectorMap
     /\ disk' = fs.disk
     /\ last' = [op |-> op, err |-> err]
     /\ alive' = sound
     /\ UNCHANGED <<totalSectors, arena>>

\* a command that threw on one of its checks before it changed anything and
\* whose handler printed the error: the state is what it was (last keeps the
\* last command that got past its checks; XxxErr gives the error printed)
Refuse == UNCHANGED vars

\* the process ended inside a command (uncaught exception, stack overflow,
\* fault, endless loop): its memory is gone, only the way it ended is kept
Abort(op, err) ==
  /\ items' = [h \in {root} |-> NewItem(TRUE, RootName, <<>>, Null)]
  /\ sectorMap' = [i \in Sectors |-> FALSE]
  /\ disk' = [i \in Sectors |-> <<>>]
  /\ currentDir' = root
  /\ last' = [op |-> op, err |-> err]
  /\ alive' = FALSE
  /\ UNCHANGED <<totalSectors, arena>>

Here == FsOf(items, sectorMap, disk)

----------------------------------------------------------------------------
(* pwd *)

\* what getFullPath gives where its walk up the parent pointers never meets
\* the root: nothing
NoPath == <<>>

\* the names getFullPath pushes, item first
RECURSIVE PathParts(_, _)
PathParts(its, current) ==
  IF current = root THEN <<>>
  ELSE <<its[current].name>> \o PathParts(its, its[current].parent)

\* "/" and the parts, last pushed first, with "/" between them
RECURSIVE JoinReversed(_, _)
JoinReversed(pathParts, i) ==
  IF i = 0 THEN <<>>
  ELSE (IF i < Len(pathParts) THEN <<Slash>> ELSE <<>>)
         \o pathParts[i] \o JoinReversed(pathParts, i - 1)

GetFullPath(its, item) ==
  IF item = root THEN RootName
  ELSE IF root \notin Chain(its, item) THEN NoPath
  ELSE <<Slash>> \o JoinReversed(PathParts(its, item), Len(PathParts(its, item)))

\* pwd prints getFullPath(currentDir); it has no handler, so the bad_alloc
\* that ends an endless walk ends the process
Pwd ==
  /\ alive
  /\ IF GetFullPath(items, currentDir) = NoPath THEN Abort("pwd", "hang")
     ELSE UNCHANGED vars

----------------------------------------------------------------------------
(* cd *)

CdErr(path) ==
  LET target == GetItem(items, currentDir, path) IN
  IF target = Null THEN "NotFound"
  ELSE IF ~items[target].isFolder THEN "NotADirectory"
  ELSE ""

Cd(path) ==
  /\ alive
  /\ IF CdErr(path) # "" THEN Refuse
     ELSE Finish(Here, GetItem(items, currentDir, path), "cd", "")

----------------------------------------------------------------------------
(* mkdir *)

RECURSIVE MkdirWalk(_, _, _, _)
MkdirWalk(fs, current, parts, i) ==
  IF i > Len(parts) THEN fs
  ELSE IF ~IsValidName(parts[i]) THEN [fs EXCEPT !.err = "InvalidName"]
  ELSE
    LET c == FindChild(fs.items, current, parts[i]) IN
    IF c # Null
    THEN IF ~fs.items[c].isFolder THEN [fs EXCEPT !.err = "NameConflict"]
         ELSE MkdirWalk(fs, c, parts, i + 1)
    ELSE
      LET h == Fresh(fs.items)
          its1 == Extend(fs.items, h, NewItem(TRUE, parts[i], <<>>, current))
          its2 == [its1 EXCEPT ![current].children = Append(@, h)]
      IN \* "Directory created:" prints getFullPath(newDir), a walk up to the root
         IF root \notin Chain(its2, h) THEN [fs EXCEPT !.items = its2, !.err = "hang"]
         ELSE MkdirWalk([fs EXCEPT !.items = its2], h, parts, i + 1)

MkdirResult(path) ==
  IF path = <<>> \/ SplitPath(path) = <<>> THEN [Here EXCEPT !.err = "InvalidName"]
  ELSE MkdirWalk(Here, IF path[1] = Slash THEN root ELSE currentDir, SplitPath(path), 1)

Mkdir(path) ==
  /\ alive
  /\ LET r == MkdirResult(path) IN
     IF r.err = "hang"
     THEN \* the walk never meets the root: it runs until memory is exhausted,
          \* and the process is killed or bad_alloc reaches the handler
          \/ Abort("mkdir", "hang")
          \/ Finish(r, currentDir, "mkdir", "OutOfMemory")
     ELSE IF r.err # "" /\ r.items = items THEN Refuse
     ELSE Finish(r, currentDir, "mkdir", r.err)

----------------------------------------------------------------------------
(* touch *)

TouchErr(filename) ==
  IF ~IsValidName(filename) THEN "InvalidName"
  ELSE IF FindChild(items, currentDir, filename) # Null THEN "AlreadyExists"
  ELSE ""

TouchResult(filename) ==
  LET h == Fresh(items)
      its1 == Extend(items, h, NewItem(FALSE, filename, <<>>, currentDir))
      its2 == [its1 EXCEPT ![currentDir].children = Append(@, h)]
  IN SaveToDisk(FsOf(its2, sectorMap, disk), h)

\* touch has no try block and main has none: a throw ends the process
Touch(filename) ==
  /\ alive
  /\ IF TouchErr(filename) # "" THEN Abort("touch", TouchErr(filename))
     ELSE LET r == TouchResult(filename) IN Finish(r, currentDir, "touch", r.err)

----------------------------------------------------------------------------
(* put *)

PutErr(realFile, fsPath) ==
  LET destDir == GetItem(items, currentDir, fsPath) IN
  IF destDir = Null \/ ~items[destDir].isFolder THEN "NotFound"
  ELSE IF \E k \in DOMAIN items[destDir].children :
            /\ ~items[items[destDir].children[k]].isFolder
            /\ items[items[destDir].children[k]].name = realFile
       THEN "AlreadyExists"
  ELSE ""

PutResult(realFile, fsPath, content) ==
  LET destDir == GetItem(items, currentDir, fsPath)
      h == Fresh(items)
      its1 == Extend(items, h, NewItem(FALSE, realFile, content, destDir))
      its2 == [its1 EXCEPT ![destDir].children = Append(@, h)]
  IN SaveToDisk(FsOf(its2, sectorMap, disk), h)

Put(realFile, fsPath, content) ==
  /\ alive
  /\ IF PutErr(realFile, fsPath) # ""
     THEN Refuse
     ELSE LET r == PutResult(realFile, fsPath, content) IN
          Finish(r, currentDir, "put", r.err)

----------------------------------------------------------------------------
(* rm *)

RmTarget(name) == FindChild(items, currentDir, name)

\* RmErr without the "Directory is not empty" check
RmErrNoEmptyCheck(name, recursive) ==
  IF RmTarget(name) = Null THEN "NotFound" ELSE ""

RmErr(name, recursive) ==
  LET target == RmTarget(name) IN
  IF target = Null THEN "NotFound"
  ELSE IF items[target].isFolder /\ items[target].children # <<>> /\ ~recursive
       THEN "NotEmpty"
  ELSE ""

\* the tree once rm has erased target from currentDir->children
RmDetached(name) ==
  [items EXCEPT ![currentDir].children = RemoveFirst(@, RmTarget(name))]

\* ids freed by freeSectorsRecursive on the (still live) nodes order[1..n]
SectorsOf(its, order, n) ==
  UNION {SeqSet(its[order[k]].sectors) : k \in {j \in 1..n : ~its[order[j]].isFolder}}

FreeSet(map, S) == [i \in DOMAIN map |-> IF i \in S THEN FALSE ELSE map[i]]

\* deleteTree(target) deleted order[1..n]; the ids in freed were released
RmFinish(name, n, freed, err) ==
  LET its1 == RmDetached(name)
      order == PostOrder(its1, RmTarget(name))
      gone == {order[k] : k \in 1..n}
      its2 == [h \in DOMAIN its1 \ gone |-> its1[h]]
  IN Finish(FsOf(its2, FreeSet(sectorMap, freed), disk), currentDir, "rm", err)

\* deleteTree deletes the children of a node and then calls
\* freeSectorsRecursive(node), which walks node->children: pointers to Items
\* already deleted.  What it reads there is undefined: the stale fields (no
\* effect), arbitrary sector ids that get freed (garbage), an id out of range
\* (freeSector throws, rm catches, the rest of the subtree is never freed), or
\* a fault.
Rm(name, recursive) ==
  /\ alive
  /\ IF RmErr(name, recursive) # ""
     THEN Refuse
     ELSE IF CyclicBelow(RmDetached(name), RmTarget(name))
     THEN Abort("rm", "crash")
     ELSE
       LET its1 == RmDetached(name)
           order == PostOrder(its1, RmTarget(name))
           dangling == {k \in DOMAIN order : its1[order[k]].children # <<>>}
       IN IF dangling = {}
          THEN RmFinish(name, Len(order), SectorsOf(its1, order, Len(order)), "")
          ELSE \/ \E garbage \in SUBSET Sectors :
                    RmFinish(name, Len(order),
                             SectorsOf(its1, order, Len(order)) \cup garbage, "")
               \/ \E k \in dangling, garbage \in SUBSET Sectors :
                    RmFinish(name, k - 1, SectorsOf(its1, order, k) \cup garbage,
                             "InvalidSector")
               \/ Abort("rm", "crash")

----------------------------------------------------------------------------
(* cp *)

\* copyItem(source, newParent); fuel bounds the recursion, which does not end
\* by itself when source lies on a cycle of children pointers
RECURSIVE CopyItem(_, _, _)
RECURSIVE CopyChildren(_, _, _, _)
CopyItem(cs, source, newParent) ==
  IF cs.fuel = 0 THEN [cs EXCEPT !.err = "crash"]
  ELSE
    LET h == Fresh(cs.items)
        src == cs.items[source]
        cs1 == [cs EXCEPT !.items = Extend(@, h,
                    [isFolder |-> src.isFolder, name |-> src.name,
                     content |-> src.content, sectors |-> <<>>,
                     children |-> <<>>, parent |-> newParent]),
                          !.fuel = @ - 1]
        cs2 == IF ~src.isFolder THEN SaveToDisk(cs1, h) ELSE cs1
    IN IF cs2.err # "" THEN cs2 ELSE CopyChildren(cs2, source, h, 1)

CopyChildren(cs, source, h, k) ==
  IF k > Len(cs.items[source].children) THEN [cs EXCEPT !.newItem = h]
  ELSE
    LET r == CopyItem(cs, cs.items[source].children[k], h) IN
    IF r.err # "" THEN r
    ELSE CopyChildren([r EXCEPT !.items[h].children = Append(@, r.newItem)],
                      source, h, k + 1)

CopyStart ==
  [items |-> items, sectorMap |-> sectorMap, disk |-> disk, err |-> "",
   newItem |-> Null, fuel |-> Cardinality(DOMAIN items) * (totalSectors + 2)]

\* DestDirOf without the isFolder test on the parent path: a File is taken
\* as the receiving directory
DestDirOfAnyKind(dest) ==
  LET destItem == GetItem(items, currentDir, dest) IN
  IF destItem # Null /\ items[destItem].isFolder THEN destItem
  ELSE GetItem(items, currentDir, DestDirPath(dest))

\* the directory that receives the copy or the moved node, or Null
DestDirOf(dest) ==
  LET destItem == GetItem(items, currentDir, dest) IN
  IF destItem # Null /\ items[destItem].isFolder THEN destItem
  ELSE LET destDir == GetItem(items, currentDir, DestDirPath(dest)) IN
       IF destDir = Null \/ ~items[destDir].isFolder THEN Null ELSE destDir

\* the name the copy or the moved node gets
DestNameOf(srcItem, dest) ==
  LET destItem == GetItem(items, currentDir, dest) IN
  IF destItem # Null /\ items[destItem].isFolder THEN items[srcItem].name
  ELSE DestName(dest)

CpErr(source, dest) ==
  LET srcItem == GetItem(items, currentDir, source) IN
  IF srcItem = Null THEN "NotFound"
  ELSE IF DestDirOf(dest) = Null THEN "NotFound"
  ELSE IF FindChild(items, DestDirOf(dest), DestNameOf(srcItem, dest)) # Null
       THEN "AlreadyExists"
  ELSE ""

CpResult(source, dest) ==
  LET srcItem == GetItem(items, currentDir, source)
      destDir == DestDirOf(dest)
      r == CopyItem(CopyStart, srcItem, destDir)
  IN IF r.err # "" THEN r
     ELSE [r EXCEPT !.items[r.newItem].name = DestNameOf(srcItem, dest),
                    !.items[destDir].children = Append(@, r.newItem)]

Cp(source, dest) ==
  /\ alive
  /\ IF CpErr(source, dest) # ""
     THEN Refuse
     ELSE LET r == CpResult(source, dest) IN
          IF r.err = "crash" THEN Abort("cp", "crash")
          ELSE Finish(r, currentDir, "cp", r.err)

----------------------------------------------------------------------------
(* mv *)

MvErr(source, dest) ==
  LET srcItem == GetItem(items, currentDir, source)
      destItem == GetItem(items, currentDir, dest)
  IN
  IF srcItem = Null THEN "NotFound"
  ELSE IF items[srcItem].isFolder /\ destItem # Null /\ srcItem \in Chain(items, destItem)
       THEN "InvalidOperation"
  ELSE IF items[srcItem].isFolder /\ destItem # Null /\ ~ChainEnds(items, destItem)
       THEN "hang"
  ELSE IF destItem # Null /\ items[destItem].isFolder
       THEN IF FindChild(items, destItem, items[srcItem].name) # Null
            THEN "AlreadyExists" ELSE ""
  ELSE IF DestDirOf(dest) = Null THEN "NotFound"
  ELSE IF \E k \in DOMAIN items[DestDirOf(dest)].children :
            /\ items[items[DestDirOf(dest)].children[k]].name = DestName(dest)
            /\ items[DestDirOf(dest)].children[k] # srcItem
       THEN "AlreadyExists"
  ELSE ""

\* detach srcItem from its parent, if it has one, and attach it to destDir
Reparent(its, srcItem, destDir) ==
  LET old == its[srcItem].parent
      its1 == IF old # Null
              THEN [its EXCEPT ![old].children = RemoveFirst(@, srcItem)]
              ELSE its
      its2 == [its1 EXCEPT ![srcItem].parent = destDir]
  IN [its2 EXCEPT ![destDir].children = Append(@, srcItem)]

\* MvResult as a move that re-creates the node: its sector list is lost
MvResultDropSectors(source, dest) ==
  LET srcItem == GetItem(items, currentDir, source)
      destDir == DestDirOf(dest)
      renamed == [items EXCEPT ![srcItem].name = DestNameOf(srcItem, dest),
                               ![srcItem].sectors = <<>>]
  IN IF items[srcItem].parent = destDir THEN renamed
     ELSE Reparent(renamed, srcItem, destDir)

MvResult(source, dest) ==
  LET srcItem == GetItem(items, currentDir, source)
      destItem == GetItem(items, currentDir, dest)
      destDir == DestDirOf(dest)
  IN
  IF destItem # Null /\ items[destItem].isFolder
  THEN IF items[srcItem].parent # destItem
       THEN Reparent(items, srcItem, destItem)
       ELSE items
  ELSE LET renamed == [items EXCEPT ![srcItem].name = DestName(dest)] IN
       IF items[srcItem].parent = destDir THEN renamed
       ELSE Reparent(renamed, srcItem, destDir)

Mv(source, dest) ==
  /\ alive
  /\ LET e == MvErr(source, dest) IN
     IF e = "hang" THEN Abort("mv", "hang")
     ELSE IF e # "" THEN Refuse
     ELSE Finish(FsOf(MvResult(source, dest), sectorMap, disk), currentDir, "mv", "")

----------------------------------------------------------------------------
(* defrag *)

\* DefragFile writing the first chunk of the content into every slot
RECURSIVE DefragFileFirstChunk(_, _, _)
DefragFileFirstChunk(ds, h, pos) ==
  LET data == ds.items[h].content IN
  IF pos >= Len(data) THEN ds
  ELSE IF ds.nextSector >= totalSectors THEN [ds EXCEPT !.err = "DiskFull"]
  ELSE
    LET len == IF SECTOR_SIZE < Len(data) - pos THEN SECTOR_SIZE ELSE Len(data) - pos
        ds1 == [ds EXCEPT !.sectorMap[ds.nextSector] = TRUE,
                          !.items[h].sectors = Append(@, ds.nextSector),
                          !.disk[ds.nextSector] = SubSeq(data, 1, len),
                          !.nextSector = @ + 1]
    IN DefragFileFirstChunk(ds1, h, pos + len)

\* the reassignment loop for one file, from byte offset pos on
RECURSIVE DefragFile(_, _, _)
DefragFile(ds, h, pos) ==
  LET data == ds.items[h].content IN
  IF pos >= Len(data) THEN ds
  ELSE IF ds.nextSector >= totalSectors THEN [ds EXCEPT !.err = "DiskFull"]
  ELSE
    LET len == IF SECTOR_SIZE < Len(data) - pos THEN SECTOR_SIZE ELSE Len(data) - pos
        ds1 == [ds EXCEPT !.sectorMap[ds.nextSector] = TRUE,
                          !.items[h].sectors = Append(@, ds.nextSector),
                          !.disk[ds.nextSector] = SubSeq(data, pos + 1, pos + len),
                          !.nextSector = @ + 1]
    IN DefragFile(ds1, h, pos + len)

\* DefragFiles without file->sectors.clear(): the new ids are appended to
\* the list the File had
RECURSIVE DefragFilesNoReset(_, _, _)
DefragFilesNoReset(ds, allFiles, k) ==
  IF k > Len(allFiles) \/ ds.err # "" THEN ds
  ELSE DefragFilesNoReset(DefragFile(ds, allFiles[k], 0), allFiles, k + 1)

RECURSIVE DefragFiles(_, _, _)
DefragFiles(ds, allFiles, k) ==
  IF k > Len(allFiles) \/ ds.err # "" THEN ds
  ELSE DefragFiles(DefragFile([ds EXCEPT !.items[allFiles[k]].sectors = <<>>],
                              allFiles[k], 0),
                   allFiles, k + 1)

\* DefragResult without the loop that clears the bitmap
DefragResultNoClear ==
  DefragFiles([items |-> items, sectorMap |-> sectorMap,
               disk |-> disk, err |-> "", nextSector |-> 0],
              CollectAllFiles(items, root), 1)

DefragResult ==
  DefragFiles([items |-> items, sectorMap |-> [i \in Sectors |-> FALSE],
               disk |-> disk, err |-> "", nextSector |-> 0],
              CollectAllFiles(items, root), 1)

Defrag ==
  /\ alive
  /\ IF CyclicBelow(items, root) THEN Abort("defrag", "crash")
     ELSE LET r == DefragResult IN Finish(r, currentDir, "defrag", r.err)

----------------------------------------------------------------------------

Next ==
  \/ Pwd
  \/ \E p \in Paths : Cd(p)
  \/ \E p \in MkdirPaths : Mkdir(p)
  \/ \E n \in Names \cup {DotName} : Touch(n)
  \/ \E n \in Names, p \in Paths, c \in Contents : Put(n, p, c)
  \/ \E n \in Names, r \in BOOLEAN : Rm(n, r)
  \/ \E s \in Paths, d \in Paths : Cp(s, d)
  \/ \E s \in Paths, d \in Paths : Mv(s, d)
  \/ Defrag

Spec == Init /\ [][Next]_vars

\* runs over three Files of one directory, with room for one more Item
InitFiles == Construct(TotalSectors) /\ arena = MaxItemsFiles

FileNames == {NameA, NameB, NameC}

\* a destination whose final segment isValidName rejects
BadName == <<"-">>

NextFiles ==
  \/ \E n \in FileNames, c \in Contents : Put(n, DotName, c)
  \/ \E n \in FileNames : Rm(n, FALSE)
  \/ \E s \in FileNames, d \in FileNames \cup {BadName} : Cp(s, d)
  \/ Defrag

SpecFiles == InitFiles /\ [][NextFiles]_vars

\* the runs in which no command ends in "Disk is full"
NextNoDiskFull ==
  \/ Pwd /\ last'.err # "DiskFull"
  \/ \E p \in Paths : Cd(p) /\ last'.err # "DiskFull"
  \/ \E p \in MkdirPaths : Mkdir(p) /\ last'.err # "DiskFull"
  \/ \E n \in Names \cup {DotName} : Touch(n) /\ last'.err # "DiskFull"
  \/ \E n \in Names, p \in Paths, c \in Contents : Put(n, p, c) /\ last'.err # "DiskFull"
  \/ \E n \in Names, r \in BOOLEAN : Rm(n, r) /\ last'.err # "DiskFull"
  \/ \E s \in Paths, d \in Paths : Cp(s, d) /\ last'.err # "DiskFull"
  \/ \E s \in Paths, d \in Paths : Mv(s, d) /\ last'.err # "DiskFull"
  \/ Defrag /\ last'.err # "DiskFull"

SpecNoDiskFull == Init /\ [][NextNoDiskFull]_vars


----------------------------------------------------------------------------
(* What the claims speak about *)

\* the nodes of the tree: the root and what hangs below it
LiveSet == ({root} \cup Desc(items, root)) \cap DOMAIN items

LiveFiles == {h \in LiveSet : ~items[h].isFolder}

\* the live Files that name sector i
OwnersOf(i) == {h \in LiveFiles : i \in SeqSet(items[h].sectors)}

AllocatedSet == {i \in Sectors : sectorMap[i]}

FreeCount == Cardinality(Sectors \ AllocatedSet)

\* ceil(n / sectorSize)
CeilSectors(n) == (n + SECTOR_SIZE - 1) \div SECTOR_SIZE

RECURSIVE SumLen(_)
SumLen(seqs) == IF seqs = <<>> THEN 0 ELSE Len(Head(seqs)) + SumLen(Tail(seqs))

----------------------------------------------------------------------------
(* C1 *)

\* C1: in every state a sector id of [0, totalSectors) is marked allocated
\* if and only if exactly one live File (reachable from the root) has it in
\* its sectors list, and there it appears once
C1_AllocatedIffOwnedOnce ==
  alive =>
    \A i \in Sectors :
      sectorMap[i] <=>
        /\ Cardinality(OwnersOf(i)) = 1
        /\ \A h \in OwnersOf(i) :
             Cardinality({k \in DOMAIN items[h].sectors : items[h].sectors[k] = i}) = 1

----------------------------------------------------------------------------
(* C2 *)

\* the directory that would receive the node mv(source, dest) moves lies in
\* the subtree of that node, which is a directory
IntoOwnSubtree(source, dest) ==
  LET srcItem == GetItem(items, currentDir, source) IN
  /\ srcItem # Null
  /\ items[srcItem].isFolder
  /\ DestDirOf(dest) # Null
  /\ DestDirOf(dest) \in {srcItem} \cup Desc(items, srcItem)

NoOwnAncestor == \A h \in DOMAIN items : h \notin Desc(items, h)

\* C2: a mv whose source is a directory D and whose receiving directory is D
\* or a descendant of D fails with InvalidOperation and leaves the tree as it
\* was; and in no state is a node its own ancestor
C2_NoMoveIntoOwnSubtree ==
  /\ [][\A s \in Paths, d \in Paths :
          (IntoOwnSubtree(s, d) /\ Mv(s, d))
            => (MvErr(s, d) = "InvalidOperation" /\ items' = items)]_vars
  /\ [](alive => NoOwnAncestor)

----------------------------------------------------------------------------
(* C10 *)

\* C10: no directory has two children with the same name
C10_SiblingNamesUnique ==
  alive =>
    \A h \in DOMAIN items :
      \A j \in DOMAIN items[h].children, k \in DOMAIN items[h].children :
        j # k => items[items[h].children[j]].name # items[items[h].children[k]].name

----------------------------------------------------------------------------
(* C3 *)

\* the Files that exist: those of the tree and those the current directory
\* still reaches
AllFiles == {h \in DOMAIN items : ~items[h].isFolder}

SectorCountExact ==
  \A h \in AllFiles : Len(items[h].sectors) = CeilSectors(Len(items[h].content))

SectorCountAtMost ==
  \A h \in AllFiles : Len(items[h].sectors) <= CeilSectors(Len(items[h].content))

\* C3 as stated: in every state every File has exactly
\* ceil(len(content) / sectorSize) sectors (none when its content is empty)
C3_SectorCountIsCeil == alive => SectorCountExact

\* C3 as amended: every File has at most ceil(len(content) / sectorSize)
\* sectors in every state, and exactly that many for as long as no command
\* has ended in DiskFull (every command that does not end in DiskFull keeps
\* the counts exact)
C3_SectorCountExactUnlessDiskFull ==
  /\ [](alive => SectorCountAtMost)
  /\ [][(SectorCountExact /\ alive' /\ last'.err # "DiskFull") => SectorCountExact']_vars

\* a File of more than one sector was written in full
C3_Witness ==
  /\ alive /\ last = [op |-> "put", err |-> ""]
  /\ \E h \in LiveFiles : /\ Len(items[h].content) > SECTOR_SIZE
                          /\ Len(items[h].sectors) = CeilSectors(Len(items[h].content))

----------------------------------------------------------------------------
(* C4 *)

\* the sector lists of the Files of the tree, depth first in child order
SectorsInTreeOrder ==
  LET files == CollectAllFiles(items, root)
  IN Flatten([k \in DOMAIN files |-> items[files[k]].sectors])

\* C4: after a successful defrag the allocated ids are exactly 0..N-1, N the
\* number of sectors of the Files of the tree, and the Files, taken depth
\* first in child order, hold the consecutive runs 0, 1, ..., N-1
C4_DefragLayoutContiguous ==
  (alive /\ last = [op |-> "defrag", err |-> ""]) =>
    /\ SectorsInTreeOrder = [i \in 1..Len(SectorsInTreeOrder) |-> i - 1]
    /\ AllocatedSet = 0..(Len(SectorsInTreeOrder) - 1)

\* a defrag succeeded on a tree with two Files that hold sectors
C4_Witness ==
  /\ alive /\ last = [op |-> "defrag", err |-> ""]
  /\ Cardinality({h \in LiveFiles : items[h].sectors # <<>>}) >= 2

----------------------------------------------------------------------------
(* C5 *)

\* the bytes in the Disk slots a sector list names, in order
ReadBack(dsk, secs) == Flatten([k \in DOMAIN secs |-> dsk[secs[k]]])

\* C5: a successful defrag leaves every File's content field, the names,
\* parents, children order and the current directory as they were, and the
\* Disk slots of every File of the tree read back as its content before
C5_DefragPreservesData ==
  [][(alive' /\ last' = [op |-> "defrag", err |-> ""]) =>
       /\ DOMAIN items' = DOMAIN items
       /\ currentDir' = currentDir
       /\ \A h \in DOMAIN items :
            /\ items'[h] = [items[h] EXCEPT !.sectors = items'[h].sectors]
            /\ (h \in LiveFiles => ReadBack(disk', items'[h].sectors) = items[h].content)]_vars

\* a defrag succeeded on a tree with a File that spans two sectors
C5_Witness ==
  /\ alive /\ last = [op |-> "defrag", err |-> ""]
  /\ \E h \in LiveFiles : Len(items[h].sectors) >= 2

----------------------------------------------------------------------------
(* C6 *)

\* the copy made by a cp that succeeded, r its result before the handles are
\* renumbered: same shape and contents as the source subtree, sectors shared
\* with no other File of the tree, the Items that existed before untouched
CopyIndependent(r, srcItem) ==
  LET srcOrder == PreOrder(items, srcItem)
      newOrder == PreOrder(r.items, r.newItem)
      filesAfter == {h \in {root} \cup Desc(r.items, root) : ~r.items[h].isFolder}
  IN /\ Len(newOrder) = Len(srcOrder)
     /\ \A k \in DOMAIN newOrder :
          /\ r.items[newOrder[k]].isFolder = items[srcOrder[k]].isFolder
          /\ r.items[newOrder[k]].content = items[srcOrder[k]].content
     /\ \A c \in SeqSet(newOrder) \cap filesAfter : \A f \in filesAfter \ {c} :
          SeqSet(r.items[c].sectors) \cap SeqSet(r.items[f].sectors) = {}
     /\ \A h \in DOMAIN items :
          /\ r.items[h].sectors = items[h].sectors
          /\ r.items[h].content = items[h].content

\* C6: after a successful cp every File of the copy has the content of the
\* File it was copied from and a sectors list disjoint from that of every
\* other File of the tree, and the original's sectors and content are as before
C6_CopyIsIndependent ==
  [][\A s \in Paths \cup FileNames, d \in Paths \cup FileNames :
       (CpErr(s, d) = "" /\ CpResult(s, d).err = "" /\ Cp(s, d))
         => CopyIndependent(CpResult(s, d), GetItem(items, currentDir, s))]_vars

----------------------------------------------------------------------------
(* C7 *)

\* the Files of the subtree rm(name) removes
SubtreeFiles(name) ==
  {h \in {RmTarget(name)} \cup Desc(items, RmTarget(name)) : ~items[h].isFolder}

SubtreeSectors(name) == UNION {SeqSet(items[h].sectors) : h \in SubtreeFiles(name)}

SubtreeSectorCount(name) ==
  SumLen([k \in 1..Len(SetToSeq(SubtreeFiles(name))) |->
            items[SetToSeq(SubtreeFiles(name))[k]].sectors])

\* C7: rm -r of a child of the current directory succeeds, removes the
\* subtree, raises the number of free sectors by the number of sectors of the
\* Files of the subtree and changes the status of no other sector
C7_RecursiveRmFreesSubtree ==
  [][\A n \in Names :
       (RmTarget(n) # Null /\ Rm(n, TRUE)) =>
          /\ alive'
          /\ last' = [op |-> "rm", err |-> ""]
          /\ Cardinality(DOMAIN items') =
               Cardinality(DOMAIN items) - Cardinality({RmTarget(n)} \cup Desc(items, RmTarget(n)))
          /\ FreeCount' = FreeCount + SubtreeSectorCount(n)
          /\ \A i \in Sectors \ SubtreeSectors(n) : sectorMap'[i] = sectorMap[i]]_vars

----------------------------------------------------------------------------
(* C8 *)

NonEmptyDirChild(name) ==
  \E k \in DOMAIN items[currentDir].children :
    LET c == items[currentDir].children[k] IN
    items[c].name = name /\ items[c].isFolder /\ items[c].children # <<>>

NoChildNamed(name) ==
  \A k \in DOMAIN items[currentDir].children :
    items[items[currentDir].children[k]].name # name

\* C8: rm without -r of a child that is a non-empty directory fails with
\* NotEmpty, rm of a name that is no child fails with NotFound, and both
\* leave the tree, the bitmap, the Disk and the current directory as they were
C8_RmRefusalsChangeNothing ==
  /\ [](alive => \A n \in Names :
          /\ NonEmptyDirChild(n) => RmErr(n, FALSE) = "NotEmpty"
          /\ NoChildNamed(n) => \A r \in BOOLEAN : RmErr(n, r) = "NotFound")
  /\ [][\A n \in Names, r \in BOOLEAN :
          (((~r /\ NonEmptyDirChild(n)) \/ NoChildNamed(n)) /\ Rm(n, r))
            => UNCHANGED <<items, sectorMap, disk, currentDir>>]_vars

\* the current directory has a non-empty directory among its children and
\* lacks a child of some name
C8_Witness ==
  /\ alive
  /\ \E n \in Names : NonEmptyDirChild(n) /\ RmErr(n, FALSE) = "NotEmpty"
  /\ \E n \in Names : NoChildNamed(n)

----------------------------------------------------------------------------
(* C9 *)

\* C9: no mv, successful or failed, changes the bitmap, the Disk, or the
\* sectors list or the content of any File
C9_MvKeepsStorage ==
  /\ [](alive => \A s \in Paths, d \in Paths :
          MvErr(s, d) = "" =>
            /\ DOMAIN MvResult(s, d) = DOMAIN items
            /\ \A h \in DOMAIN items :
                 /\ MvResult(s, d)[h].sectors = items[h].sectors
                 /\ MvResult(s, d)[h].content = items[h].content)
  /\ [][(alive' /\ last'.op = "mv") => (sectorMap' = sectorMap /\ disk' = disk)]_vars

\* a mv succeeded while a File held sectors
C9_Witness ==
  /\ alive /\ last = [op |-> "mv", err |-> ""]
  /\ \E h \in LiveFiles : items[h].sectors # <<>>

----------------------------------------------------------------------------
(* C11 *)

\* C11: in every state the root is a Directory named "/", has no parent and
\* is a child of no directory
C11_RootStable ==
  alive =>
    /\ root \in DOMAIN items
    /\ items[root].isFolder
    /\ items[root].name = RootName
    /\ items[root].parent = Null
    /\ \A h \in DOMAIN items : root \notin ChildSet(items, h)

----------------------------------------------------------------------------
(* C12 *)

\* the node source resolves to is a child of the directory that receives it,
\* and the only child there that bears the name it would get
CollidesOnlyWithItself(source, dest) ==
  LET srcItem == GetItem(items, currentDir, source)
      destDir == DestDirOf(dest)
  IN /\ srcItem # Null
     /\ destDir # Null
     /\ srcItem \in ChildSet(items, destDir)
     /\ items[srcItem].parent = destDir
     /\ items[srcItem].name = DestNameOf(srcItem, dest)
     /\ \A c \in ChildSet(items, destDir) :
          items[c].name = DestNameOf(srcItem, dest) => c = srcItem

\* C12: a mv whose only name collision in the receiving directory is with the
\* source node itself succeeds and leaves the node where it is, under the
\* same name
C12_MvOntoItselfSucceeds ==
  alive =>
    \A s \in Paths, d \in Paths :
      CollidesOnlyWithItself(s, d) => (MvErr(s, d) = "" /\ MvResult(s, d) = items)

----------------------------------------------------------------------------
(* C13 *)

\* the path in front of the final segment of dest: "." when dest has no '/',
\* "/" when its only '/' is the leading one
ParentPath(dest) ==
  IF FindLastSlash(dest) = 0 THEN DotName
  ELSE IF FindLastSlash(dest) = 1 THEN RootName
  ELSE SubSeq(dest, 1, FindLastSlash(dest) - 1)

\* in the tree its, node is a child of the directory the parent path of dest
\* resolves to, under the name of dest's final segment
LandsUnderParentPath(dest, its, node) ==
  LET dir == GetItem(items, currentDir, ParentPath(dest)) IN
  /\ dir # Null
  /\ node \in ChildSet(its, dir)
  /\ its[node].parent = dir
  /\ its[node].name = DestName(dest)

\* C13: when dest does not resolve to an existing directory, a cp or mv that
\* succeeds puts the copy, or the moved node, under the directory dest's
\* parent path resolves to, with dest's final segment as its name
C13_DestResolvesToParentPath ==
  alive =>
    \A s \in Paths, d \in Paths :
      LET destItem == GetItem(items, currentDir, d) IN
      (destItem = Null \/ ~items[destItem].isFolder) =>
        /\ MvErr(s, d) = "" =>
             LandsUnderParentPath(d, MvResult(s, d), GetItem(items, currentDir, s))
        /\ (CpErr(s, d) = "" /\ CpResult(s, d).err = "") =>
             LandsUnderParentPath(d, CpResult(s, d).items, CpResult(s, d).newItem)

----------------------------------------------------------------------------
(* C14 *)

PreconditionErrors ==
  {"NotFound", "AlreadyExists", "NotEmpty", "InvalidName", "NameConflict",
   "InvalidOperation"}

\* C14: a command that fails with NotFound, AlreadyExists, NotEmpty,
\* InvalidName, NameConflict or InvalidOperation returns to the shell with the
\* tree, the bitmap and the current directory as they were before it
C14_PreconditionFailuresAtomic ==
  [][last'.err \in PreconditionErrors =>
       (alive' /\ UNCHANGED <<items, sectorMap, currentDir>>)]_vars

----------------------------------------------------------------------------
(* C15 *)

\* C15: in every state the name of every node but the root is non-empty, is
\* neither "." nor ".." and consists of alphanumerics, '_' and '.'
C15_NamesValid ==
  alive => \A h \in DOMAIN items \ {root} : IsValidName(items[h].name)

----------------------------------------------------------------------------
(* C16 *)

FreeSectors == Sectors \ AllocatedSet

\* the k lowest free ids, ascending
LowestFree(k) == SubSeq(SetToSeq(FreeSectors), 1, k)

\* C16: allocateSector fails exactly when every id is allocated and otherwise
\* returns the lowest free id; a put gets the lowest free ids in ascending
\* order and marks exactly those allocated; and once a step has freed an id,
\* the next allocation returns that id or a lower one
C16_AllocateLowestFree ==
  /\ [](alive =>
          /\ (AllocateSector(sectorMap) = -1) <=> (AllocatedSet = Sectors)
          /\ AllocateSector(sectorMap) # -1 =>
               /\ AllocateSector(sectorMap) \in FreeSectors
               /\ \A i \in FreeSectors : AllocateSector(sectorMap) <= i
          /\ \A n \in Names, p \in Paths, c \in Contents :
               PutErr(n, p) = "" =>
                 LET r == PutResult(n, p, c)
                     got == r.items[Fresh(items)].sectors
                 IN /\ got = LowestFree(Len(got))
                    /\ \A i \in Sectors : r.sectorMap[i] <=> (sectorMap[i] \/ i \in SeqSet(got))
                    /\ r.err = "DiskFull" <=> CeilSectors(Len(c)) > Cardinality(FreeSectors)
                    /\ r.err = "" => Len(got) = CeilSectors(Len(c)))
  /\ [][alive' => \A i \in Sectors :
          (sectorMap[i] /\ ~sectorMap'[i]) => AllocateSector(sectorMap') \in 0..i]_vars

\* a File was removed and left a free id below an allocated one
C16_Witness ==
  /\ alive /\ last = [op |-> "rm", err |-> ""]
  /\ \E i \in FreeSectors, j \in AllocatedSet : i < j

----------------------------------------------------------------------------
(* C17 *)

\* what put(realFile, fsPath) with this content leaves when fewer sectors are
\* free than the content needs: DiskFull, every free sector claimed by the
\* new File, which is the last child of the destination directory, holds the
\* whole content and lists the claimed ids, the slots of which hold the
\* leading bytes of the content
PartialWrite(realFile, fsPath, content) ==
  LET r == PutResult(realFile, fsPath, content)
      h == Fresh(items)
      destDir == GetItem(items, currentDir, fsPath)
      f == Cardinality(FreeSectors)
  IN /\ r.err = "DiskFull"
     /\ r.items[destDir].children = Append(items[destDir].children, h)
     /\ r.items[h].parent = destDir
     /\ ~r.items[h].isFolder
     /\ r.items[h].name = realFile
     /\ r.items[h].content = content
     /\ r.items[h].sectors = LowestFree(f)
     /\ \A i \in Sectors : r.sectorMap[i]
     /\ ReadBack(r.disk, r.items[h].sectors) = SubSeq(content, 1, f * SECTOR_SIZE)
     /\ \A i \in AllocatedSet : r.disk[i] = disk[i]

\* C17: a put whose content needs more sectors than are free fails with
\* DiskFull and is not rolled back: the new File stays in the destination
\* directory with its full content, and the sectors that were free, now
\* allocated and listed by it, hold the first bytes of the content
C17_PartialWriteKept ==
  /\ [](alive => \A n \in Names, p \in Paths, c \in Contents :
          (PutErr(n, p) = "" /\ CeilSectors(Len(c)) > Cardinality(FreeSectors))
            => PartialWrite(n, p, c))
  /\ [][(alive' /\ last' = [op |-> "put", err |-> "DiskFull"]) =>
          /\ AllocatedSet' = Sectors
          /\ Cardinality(DOMAIN items') = Cardinality(DOMAIN items) + 1]_vars

\* a put ran out of sectors after it had claimed one
C17_Witness ==
  /\ alive /\ last = [op |-> "put", err |-> "DiskFull"]
  /\ \E h \in LiveFiles :
       /\ items[h].sectors # <<>>
       /\ Len(items[h].sectors) < CeilSectors(Len(items[h].content))

----------------------------------------------------------------------------
(* C18 *)

\* walking parts[i..] down from cur never meets a File
RECURSIVE NoConflict(_, _, _)
NoConflict(cur, parts, i) ==
  \/ i > Len(parts)
  \/ LET c == FindChild(items, cur, parts[i]) IN
     \/ c = Null
     \/ items[c].isFolder /\ NoConflict(c, parts, i + 1)

\* path has segments, all of them valid names, none of them naming a File
ValidFreePath(path) ==
  /\ SplitPath(path) # <<>>
  /\ \A k \in DOMAIN SplitPath(path) : IsValidName(SplitPath(path)[k])
  /\ NoConflict(IF path[1] = Slash THEN root ELSE currentDir, SplitPath(path), 1)

\* r is the tree with directories added and nothing else changed: what was
\* there is as it was but for children appended, what is new are empty-handed
\* Directories, and the bitmap and the Disk are untouched
OnlyDirectoriesAdded(r, path) ==
  /\ DOMAIN items \subseteq DOMAIN r.items
  /\ \A h \in DOMAIN items :
       /\ r.items[h] = [items[h] EXCEPT !.children = r.items[h].children]
       /\ \/ r.items[h].children = items[h].children
          \/ /\ Len(r.items[h].children) = Len(items[h].children) + 1
             /\ SubSeq(r.items[h].children, 1, Len(items[h].children)) = items[h].children
             /\ r.items[h].children[Len(r.items[h].children)] \notin DOMAIN items
  /\ \A h \in DOMAIN r.items \ DOMAIN items :
       /\ r.items[h].isFolder
       /\ r.items[h].content = <<>>
       /\ r.items[h].sectors = <<>>
       /\ r.items[h].name \in SeqSet(SplitPath(path))
  /\ r.sectorMap = sectorMap
  /\ r.disk = disk

\* C18: mkdir of a path of valid segments that name no File succeeds, after
\* it the path resolves to a Directory, it has added directories and changed
\* nothing else, and doing it once more changes nothing
C18_MkdirCreatesPathOnly ==
  alive =>
    \A p \in MkdirPaths :
      ValidFreePath(p) =>
        LET r == MkdirResult(p)
            made == GetItem(r.items, currentDir, p)
        IN /\ r.err = ""
           /\ made # Null
           /\ r.items[made].isFolder
           /\ OnlyDirectoriesAdded(r, p)
           /\ MkdirWalk(r, IF p[1] = Slash THEN root ELSE currentDir, SplitPath(p), 1) = r

----------------------------------------------------------------------------
(* C19 *)

\* the paths resolved, those of the commands and some with "." and ".."
\* between other segments
ResolvePaths ==
  Paths \cup {<<>>, <<"/", ".", ".">>, <<"/", "a", "/", ".", ".">>,
              <<"a", "/", ".", "/", "b">>, <<".", ".", "/", "a">>,
              <<"/", "b", "/", ".", ".", "/", "a">>, <<"/", "a", "/", "b">>}

\* one segment from node n: "." stays, ".." goes to the parent (stays where
\* there is none), another segment goes to a child of that name
StepSet(n, seg) ==
  IF seg = DotName THEN {n}
  ELSE IF seg = DotDotName
       THEN (IF items[n].parent = Null THEN {n} ELSE {items[n].parent})
  ELSE {c \in ChildSet(items, n) : items[c].name = seg}

RECURSIVE Resolutions(_, _, _)
Resolutions(S, parts, i) ==
  IF i > Len(parts) THEN S
  ELSE Resolutions(UNION {StepSet(n, parts[i]) : n \in S}, parts, i + 1)

\* C19: from every directory every path resolves, segment by segment, as "."
\* (stay), ".." (parent, or stay at the root) and child lookup by exact name,
\* starting at the root when the path begins with '/' and at the starting
\* directory otherwise; it yields not-found exactly when a segment names no
\* child of the node reached; at the root ".." is a no-op
C19_ResolutionBySegments ==
  alive =>
    /\ \A cur \in {h \in DOMAIN items : items[h].isFolder}, p \in ResolvePaths :
         LET start == IF p # <<>> /\ p[1] = Slash THEN root ELSE cur
             found == Resolutions({start}, SplitPath(p), 1)
             got == GetItem(items, cur, p)
         IN /\ got = Null <=> found = {}
            /\ got # Null => got \in found
    /\ GetItem(items, root, DotDotName) = root

----------------------------------------------------------------------------
(* C20 *)

\* C20: cd succeeds exactly on paths that resolve to a Directory and makes
\* that Directory the current one (a cd that fails changes nothing); pwd
\* prints "/" followed by the names from the root down to the current
\* directory with "/" between them, a path that resolves back to the current
\* directory
C20_CdAndPwdAgree ==
  /\ [](alive =>
          /\ \A p \in Paths :
               LET target == GetItem(items, currentDir, p) IN
               CdErr(p) = "" <=> (target # Null /\ items[target].isFolder)
          /\ LET shown == GetFullPath(items, currentDir) IN
             /\ shown # NoPath
             /\ shown[1] = Slash
             /\ currentDir \in Resolutions({root}, SplitPath(shown), 1)
             /\ GetItem(items, currentDir, shown) = currentDir)
  /\ [][(alive' /\ last'.op = "cd") =>
          /\ items'[currentDir'].isFolder
          /\ \E p \in Paths :
               /\ CdErr(p) = ""
               /\ GetFullPath(items', currentDir')
                    = GetFullPath(items, GetItem(items, currentDir, p))]_vars

----------------------------------------------------------------------------
(* C21 *)

\* C21: in every state every Directory has empty content and an empty
\* sectors list, and every File has no children
C21_KindFieldsWellFormed ==
  alive =>
    \A h \in DOMAIN items :
      /\ items[h].isFolder => (items[h].content = <<>> /\ items[h].sectors = <<>>)
      /\ ~items[h].isFolder => items[h].children = <<>>

\* a cp or a mv put a File that holds sectors into a directory below the root
C21_Witness ==
  /\ alive /\ last.op \in {"cp", "mv"} /\ last.err = ""
  /\ \E d \in LiveSet \ {root} :
       /\ items[d].isFolder
       /\ \E f \in ChildSet(items, d) : ~items[f].isFolder /\ items[f].sectors # <<>>

----------------------------------------------------------------------------
(* C22 *)

NoSector == -1

\* what freeSectorsRecursive(item) does, in order: it reads item, frees the
\* sectors of a File, and goes on to the children item lists
RECURSIVE FreeSectorsEvents(_, _)
FreeSectorsEvents(its, item) ==
  <<[ev |-> "read", node |-> item, sector |-> NoSector]>>
    \o (IF ~its[item].isFolder
        THEN [k \in DOMAIN its[item].sectors |->
                [ev |-> "free", node |-> item, sector |-> its[item].sectors[k]]]
        ELSE <<>>)
    \o Flatten([k \in DOMAIN its[item].children |->
                  FreeSectorsEvents(its, its[item].children[k])])

\* what deleteTree(node) does, in order: deleteTree on every child, then
\* freeSectorsRecursive(node), then delete node
RECURSIVE DeleteTreeEvents(_, _)
DeleteTreeEvents(its, node) ==
  Flatten([k \in DOMAIN its[node].children |->
             DeleteTreeEvents(its, its[node].children[k])])
    \o FreeSectorsEvents(its, node)
    \o <<[ev |-> "delete", node |-> node, sector |-> NoSector]>>

\* the nodes deleted before event i
Discarded(tr, i) == {tr[j].node : j \in {x \in 1..(i - 1) : tr[x].ev = "delete"}}

\* the events that read a node already deleted
ReadsDiscarded(tr) ==
  {i \in DOMAIN tr : tr[i].ev = "read" /\ tr[i].node \in Discarded(tr, i)}

\* the events up to the first read of a deleted node: what follows it depends
\* on what that read returns
DefinedPrefix(tr) ==
  IF ReadsDiscarded(tr) = {} THEN tr ELSE SubSeq(tr, 1, Min(ReadsDiscarded(tr)))

\* C22: in rm -r of a child of the current directory, every sector of every
\* File of the removed subtree is freed while that File and its ancestors in
\* the subtree are not yet deleted, no node is read after it has been
\* deleted, and no sector id is freed twice
C22_SectorsFreedBeforeDiscard ==
  alive =>
    \A n \in Names :
      (RmErr(n, TRUE) = "" /\ ~CyclicBelow(RmDetached(n), RmTarget(n))) =>
        LET its1 == RmDetached(n)
            tr == DefinedPrefix(DeleteTreeEvents(its1, RmTarget(n)))
            frees == {i \in DOMAIN tr : tr[i].ev = "free"}
        IN /\ ReadsDiscarded(tr) = {}
           /\ \A i \in frees, j \in frees : i # j => tr[i].sector # tr[j].sector
           /\ \A h \in SubtreeFiles(n) : \A s \in SeqSet(items[h].sectors) :
                \E i \in frees :
                  /\ tr[i].node = h /\ tr[i].sector = s
                  /\ Discarded(tr, i) \cap Chain(its1, h) = {}

----------------------------------------------------------------------------
(* C23 *)

\* C23: in every state the current directory is a Directory that exists,
\* its parent chain reaches the root, and the walk of pwd from it to the root
\* ends
C23_CurrentDirUsable ==
  alive =>
    /\ currentDir \in DOMAIN items
    /\ items[currentDir].isFolder
    /\ root \in Chain(items, currentDir)
    /\ GetFullPath(items, currentDir) # NoPath

----------------------------------------------------------------------------
(* C24 *)

\* source resolves to a directory D and the directory that would receive the
\* copy is D or lies inside D
CopyIntoItself(source, dest) ==
  LET srcItem == GetItem(items, currentDir, source) IN
  /\ CpErr(source, dest) = ""
  /\ items[srcItem].isFolder
  /\ DestDirOf(dest) \in {srcItem} \cup Desc(items, srcItem)

\* the copy r made is a snapshot of the subtree of srcItem as it was before:
\* as many nodes, in the same order, of the same kind, name and content, all
\* of them new, the copy not inside itself, and the subtree it was taken from
\* as it was but for the copy it received
CopyIsSnapshot(r, srcItem, destDir) ==
  LET srcOrder == PreOrder(items, srcItem)
      newOrder == PreOrder(r.items, r.newItem)
  IN /\ r.newItem \notin Desc(r.items, r.newItem)
     /\ Len(newOrder) = Len(srcOrder)
     /\ SeqSet(newOrder) \cap DOMAIN items = {}
     /\ \A k \in DOMAIN newOrder :
          /\ r.items[newOrder[k]].isFolder = items[srcOrder[k]].isFolder
          /\ r.items[newOrder[k]].content = items[srcOrder[k]].content
          /\ k > 1 => r.items[newOrder[k]].name = items[srcOrder[k]].name
     /\ \A h \in DOMAIN items :
          r.items[h] = [items[h] EXCEPT
                          !.children = IF h = destDir THEN Append(@, r.newItem) ELSE @]

\* C24: a cp of a directory D whose receiving directory is D or lies inside D
\* comes to an end, and when it succeeds the copy holds exactly the nodes
\* that were in the subtree of D before and does not contain itself
C24_CopyIntoItselfIsSnapshot ==
  alive =>
    \A s \in Paths, d \in Paths :
      CopyIntoItself(s, d) =>
        LET r == CpResult(s, d) IN
        /\ r.err # "crash"
        /\ r.err = "" => CopyIsSnapshot(r, GetItem(items, currentDir, s), DestDirOf(d))

----------------------------------------------------------------------------
(* C25 *)

DefragSucceeded == alive /\ last = [op |-> "defrag", err |-> ""]

\* C25: a defrag run right after a successful defrag succeeds and leaves the
\* bitmap, the Disk slots of the allocated ids and the sectors list of every
\* File as the first one left them
C25_DefragIdempotent ==
  /\ [](DefragSucceeded =>
          /\ ~CyclicBelow(items, root)
          /\ DefragResult.err = ""
          /\ DefragResult.sectorMap = sectorMap
          /\ \A i \in AllocatedSet : DefragResult.disk[i] = disk[i]
          /\ DOMAIN DefragResult.items = DOMAIN items
          /\ \A h \in AllFiles : DefragResult.items[h].sectors = items[h].sectors)
  /\ [][(DefragSucceeded /\ last'.op = "defrag") =>
          /\ alive' /\ last'.err = ""
          /\ sectorMap' = sectorMap
          /\ \A i \in AllocatedSet : disk'[i] = disk[i]
          /\ items' = items]_vars

\* a defrag succeeded on a tree with a File that holds a sector, and left a
\* sector free
C25_Witness ==
  /\ DefragSucceeded
  /\ \E h \in LiveFiles : items[h].sectors # <<>>
  /\ FreeSectors # {}

----------------------------------------------------------------------------
(* C26 *)

\* the sets of ids deleteTree(target) may have passed to freeSector when rm
\* returns, its1 the tree once target is erased from its parent's children:
\* the sectors of the Files of the subtree, and, when a deleted node was read,
\* whatever ids that read gave, up to the id that made freeSector throw
DeleteTreeFreed(its1, target) ==
  LET order == PostOrder(its1, target)
      dangling == {k \in DOMAIN order : its1[order[k]].children # <<>>}
  IN IF dangling = {}
     THEN {SectorsOf(its1, order, Len(order))}
     ELSE {SectorsOf(its1, order, Len(order)) \cup garbage : garbage \in SUBSET Sectors}
            \cup UNION {{SectorsOf(its1, order, k) \cup garbage : garbage \in SUBSET Sectors} :
                          k \in dangling}

\* C26: where no command has ended in DiskFull, after a successful
\* cp(source, dest), rm -r of the copy from its parent directory returns the
\* bitmap to the allocated ids it had before the cp, and the sectors list and
\* content of every File that existed before the cp are as they were
C26_CpThenRmRestoresAllocator ==
  alive =>
    \A s \in Paths, d \in Paths :
      (CpErr(s, d) = "" /\ CpResult(s, d).err = "") =>
        LET r == CpResult(s, d)
            destDir == DestDirOf(d)
            its1 == [r.items EXCEPT ![destDir].children = RemoveFirst(@, r.newItem)]
        IN /\ FindChild(r.items, destDir, r.items[r.newItem].name) = r.newItem
           /\ \A freed \in DeleteTreeFreed(its1, r.newItem) :
                FreeSet(r.sectorMap, freed) = sectorMap
           /\ \A h \in AllFiles :
                /\ its1[h].sectors = items[h].sectors
                /\ its1[h].content = items[h].content

====
